---- MODULE Spec2Model ----
(***************************************************************************)
(* Resource services of the Grafana plugin SDK (src/backend/resource.rs):  *)
(* the conversion of an inbound pluginv2::CallResourceRequest into an      *)
(* http::Request, the conversion of an http::Response into an outbound     *)
(* pluginv2::CallResourceResponse, and the gRPC entry point call_resource, *)
(* which chains the converted initial response with the handler's stream   *)
(* of body chunks.                                                         *)
(*                                                                         *)
(* Header names and header values are sequences of bytes, bodies, methods  *)
(* and URLs are strings.  A Result is a record with a field ok, an Option  *)
(* is a sequence of length at most one.                                    *)
(***************************************************************************)
EXTENDS Integers, Sequences, FiniteSets, TLC

VARIABLES
    wire,               \* Option of the inbound pluginv2::CallResourceRequest
    pc,                 \* position of the call
    ret,                \* Option of what call_resource returned
    calls,              \* invocations of ResourceService::call_resource
    count,              \* the example plugin's AtomicUsize
    initial_response,   \* Option of the handler's initial Result
    once,               \* stream::once: Option of the item it still holds
    first,              \* Chain: TRUE while its first stream is present
    stream,             \* the handler's stream of chunks
    yielded,            \* the items the handler's stream has yielded so far
    out,                \* the items the outbound stream has yielded so far
    polls,              \* poll_next calls on the outbound stream
    decoded,            \* codec specification: Option of the decoded headers
    encoded             \* codec specification: Option of the encoded response

vars == <<wire, pc, ret, calls, count, initial_response, once, first, stream,
          yielded, out, polls, decoded, encoded>>

(***************************************************************************)
(* Bounds of the model.                                                    *)
(***************************************************************************)
MaxKeys == 2        \* keys of a header map
MaxVals == 2        \* values under one header name
StreamKeys == 1     \* keys of an inbound header map in the streaming specification
MaxChunks == 2      \* length of a finite chunk stream
MaxCount == 3       \* cap of the example plugin's counter

(***************************************************************************)
(* Result and Option.                                                      *)
(***************************************************************************)
Ok(v) == [ok |-> TRUE, val |-> v]
Err(e) == [ok |-> FALSE, err |-> e]
Some(v) == <<v>>
None == <<>>

Max(a, b) == IF a >= b THEN a ELSE b

(***************************************************************************)
(* The http crate's header grammar, as used by k.parse::<HeaderName>(),    *)
(* v.parse::<HeaderValue>() and HeaderValue::to_str.                       *)
(***************************************************************************)
\* the token characters other than letters and digits: !#$%&'*+-.^_`|~
TokenPunct == {33, 35, 36, 37, 38, 39, 42, 43, 45, 46, 94, 95, 96, 124, 126}

\* HeaderChar that keeps the case of a letter
HeaderCharKeepCase(b) ==
    IF (b >= 65 /\ b <= 90) \/ (b >= 97 /\ b <= 122) \/ (b >= 48 /\ b <= 57)
          \/ b \in TokenPunct
    THEN b
    ELSE 0

\* the header-name table: upper case maps to lower case, a byte that is no
\* token character maps to 0
HeaderChar(b) ==
    IF b >= 65 /\ b <= 90 THEN b + 32
    ELSE IF (b >= 97 /\ b <= 122) \/ (b >= 48 /\ b <= 57) \/ b \in TokenPunct THEN b
    ELSE 0

ParseHeaderName(k) ==
    IF Len(k) = 0 \/ \E i \in 1..Len(k) : HeaderChar(k[i]) = 0
    THEN Err("InvalidHeaderName")
    ELSE Ok([i \in 1..Len(k) |-> HeaderChar(k[i])])

\* a byte HeaderValue accepts: visible ASCII, tab and obs-text (>= 0x80)
IsValidValueByte(b) == (b >= 32 /\ b # 127) \/ b = 9

\* a byte HeaderValue::to_str accepts: visible ASCII and tab
IsVisibleAscii(b) == (b >= 32 /\ b < 127) \/ b = 9

ParseHeaderValue(v) ==
    IF \E i \in 1..Len(v) : ~IsValidValueByte(v[i])
    THEN Err("InvalidHeaderValue")
    ELSE Ok(v)

ToStr(v) ==
    IF \E i \in 1..Len(v) : ~IsVisibleAscii(v[i])
    THEN Err("ToStrError")
    ELSE Ok(v)

(***************************************************************************)
(* http::HeaderMap: the entries in the order their names were first        *)
(* inserted, each with all the values appended under the name.             *)
(***************************************************************************)
EmptyHeaderMap == <<>>

HeaderMapAppend(h, name, val) ==
    IF \E i \in 1..Len(h) : h[i].name = name
    THEN LET i == CHOOSE j \in 1..Len(h) : h[j].name = name
         IN  [h EXCEPT ![i].values = Append(@, val)]
    ELSE Append(h, [name |-> name, values |-> <<val>>])

\* HeaderMap::drain: the first value of a name comes with Some(name), every
\* further value of the same name with None
DrainEntry(e) ==
    [j \in 1..Len(e.values) |->
        [key |-> IF j = 1 THEN Some(e.name) ELSE None, value |-> e.values[j]]]

RECURSIVE Drain(_)
Drain(h) ==
    IF h = <<>> THEN <<>> ELSE DrainEntry(Head(h)) \o Drain(Tail(h))

(***************************************************************************)
(* TryFrom<pluginv2::CallResourceRequest> for CallResourceRequest.         *)
(***************************************************************************)
\* the inner loop: for v in &vs.values
RECURSIVE DecodeValues(_, _, _)
DecodeValues(headers, header_name, vs) ==
    IF vs = <<>> THEN Ok(headers)
    ELSE LET header_val == ParseHeaderValue(Head(vs))
         IN  IF ~header_val.ok THEN Err(header_val.err)
             ELSE DecodeValues(HeaderMapAppend(headers, header_name, header_val.val),
                               header_name, Tail(vs))

\* DecodeHeaders with the name parsed inside the loop over the values, so
\* that the name of an entry without values is never looked at
RECURSIVE DecodeHeadersLazyName(_, _)
DecodeHeadersLazyName(headers, entries) ==
    IF entries = <<>> THEN Ok(headers)
    ELSE IF Head(entries).values = <<>>
    THEN DecodeHeadersLazyName(headers, Tail(entries))
    ELSE LET header_name == ParseHeaderName(Head(entries).name)
         IN  IF ~header_name.ok THEN Err(header_name.err)
             ELSE LET hs == DecodeValues(headers, header_name.val, Head(entries).values)
                  IN  IF ~hs.ok THEN hs ELSE DecodeHeadersLazyName(hs.val, Tail(entries))

\* the outer loop: for (k, vs) in other.headers.iter(); entries is the map
\* in the order the iteration visits it
RECURSIVE DecodeHeaders(_, _)
DecodeHeaders(headers, entries) ==
    IF entries = <<>> THEN Ok(headers)
    ELSE LET header_name == ParseHeaderName(Head(entries).name)
         IN  IF ~header_name.ok THEN Err(header_name.err)
             ELSE LET hs == DecodeValues(headers, header_name.val, Head(entries).values)
                  IN  IF ~hs.ok THEN hs ELSE DecodeHeaders(hs.val, Tail(entries))

IsValidMethod(m) == Len(m) > 0
IsValidUri(u) == Len(u) > 0

\* TryFromRequest with the request built before the plugin context is converted
TryFromRequestMethodFirst(other) ==
    LET headers == DecodeHeaders(EmptyHeaderMap, other.headers)
    IN  IF ~headers.ok
        THEN Err([kind |-> "InvalidRequest", source |-> headers.err])
        ELSE IF ~IsValidMethod(other.method) \/ ~IsValidUri(other.url)
        THEN Err([kind |-> "InvalidRequest", source |-> "http::Error"])
        ELSE IF other.plugin_context = "invalid"
        THEN Err([kind |-> "PluginContext", source |-> "PluginContextError"])
        ELSE Ok([plugin_context |-> other.plugin_context,
                 method |-> other.method,
                 uri |-> other.url,
                 headers |-> headers.val,
                 body |-> other.body])

TryFromRequest(other) ==
    LET headers == DecodeHeaders(EmptyHeaderMap, other.headers)
    IN  IF ~headers.ok
        THEN Err([kind |-> "InvalidRequest", source |-> headers.err])
        ELSE IF other.plugin_context = "invalid"
        THEN Err([kind |-> "PluginContext", source |-> "PluginContextError"])
        ELSE IF ~IsValidMethod(other.method) \/ ~IsValidUri(other.url)
        THEN Err([kind |-> "InvalidRequest", source |-> "http::Error"])
        ELSE Ok([plugin_context |-> other.plugin_context,
                 method |-> other.method,
                 uri |-> other.url,
                 headers |-> headers.val,
                 body |-> other.body])

(***************************************************************************)
(* TryFrom<Response<Vec<u8>>> for pluginv2::CallResourceResponse.          *)
(***************************************************************************)
\* itertools group_by: the runs of consecutive elements with equal keys
RECURSIVE GroupBy(_)
GroupBy(d) ==
    IF d = <<>> THEN <<>>
    ELSE LET k == Head(d).key
             run == CHOOSE m \in 1..Len(d) :
                        /\ \A i \in 1..m : d[i].key = k
                        /\ (m = Len(d) \/ d[m + 1].key # k)
         IN  <<[key |-> k, values |-> [i \in 1..run |-> d[i].value]]>>
                 \o GroupBy(SubSeq(d, run + 1, Len(d)))

\* the closure mapped over the groups: the name of the group's key and the
\* text of each of its values
GroupToEntry(g) ==
    IF g.key = None THEN Err("InvalidResponse")
    ELSE LET vs == [i \in 1..Len(g.values) |-> ToStr(g.values[i])]
         IN  IF \E i \in 1..Len(vs) : ~vs[i].ok
             THEN Err("InvalidResponse")
             ELSE Ok([name |-> g.key[1],
                      values |-> [i \in 1..Len(vs) |-> vs[i].val]])

\* collect::<Result<HashMap<_, _>, _>>: the first error, or the map in which
\* a later entry of a name replaces an earlier one
CollectHeaders(entries) ==
    IF \E i \in 1..Len(entries) : ~entries[i].ok
    THEN Err("InvalidResponse")
    ELSE Ok([n \in {entries[i].val.name : i \in 1..Len(entries)} |->
                LET last == CHOOSE i \in 1..Len(entries) :
                                /\ entries[i].val.name = n
                                /\ \A j \in (i + 1)..Len(entries) : entries[j].val.name # n
                IN  entries[last].val.values])

\* TryFromResponse with the code left at 200 instead of the response's status
TryFromResponseFixedCode(other) ==
    LET grouped_headers == GroupBy(Drain(other.headers))
        headers == CollectHeaders([i \in 1..Len(grouped_headers) |->
                                      GroupToEntry(grouped_headers[i])])
    IN  IF ~headers.ok THEN Err(headers.err)
        ELSE Ok([code |-> 200, headers |-> headers.val, body |-> other.body])

TryFromResponse(other) ==
    LET grouped_headers == GroupBy(Drain(other.headers))
        headers == CollectHeaders([i \in 1..Len(grouped_headers) |->
                                      GroupToEntry(grouped_headers[i])])
    IN  IF ~headers.ok THEN Err(headers.err)
        ELSE Ok([code |-> other.status, headers |-> headers.val, body |-> other.body])

\* std::collections::HashMap::new()
EmptyWireHeaders == [n \in {} |-> <<>>]

\* body_to_response with the code left at the message's default
body_to_response_default(body) ==
    [code |-> 0, headers |-> EmptyWireHeaders, body |-> body]

body_to_response(body) ==
    [code |-> 200, headers |-> EmptyWireHeaders, body |-> body]

(***************************************************************************)
(* Failure statuses.                                                       *)
(***************************************************************************)
\* tonic::Status::internal(e.to_string())
StatusInternal(e) == [code |-> "Internal", message |-> e]

\* ConversionError::into_tonic_status
into_tonic_status(e) == [code |-> "Conversion", message |-> e.source]

\* lines 233-238: the handler's initial response, converted or error-mapped
ConvertInitial(initial) ==
    IF ~initial.ok THEN Err(StatusInternal(initial.err))
    ELSE LET converted == TryFromResponse(initial.val)
         IN  IF converted.ok THEN converted ELSE Err(StatusInternal(converted.err))

\* lines 241-245: the closure mapped over the handler's stream
MapChunk(response) ==
    IF response.ok THEN Ok(body_to_response(response.val))
    ELSE Err(StatusInternal(response.err))

(***************************************************************************)
(* The handler: the example implementation of ResourceService of the       *)
(* trait's documentation, and any other implementation.                    *)
(***************************************************************************)
Digits == <<"0", "1", "2", "3", "4", "5", "6", "7", "8", "9">>

\* usize::to_string
RECURSIVE to_string(_)
to_string(n) ==
    IF n < 10 THEN Digits[n + 1] ELSE to_string(n \div 10) \o Digits[(n % 10) + 1]

\* Response::new(body)
ResponseNew(body) == [status |-> 200, headers |-> EmptyHeaderMap, body |-> body]

\* futures::stream::empty() and any other finite stream
IterStream(items) == [kind |-> "iter", items |-> items]

\* the try_stream! of /count
CountStream == [kind |-> "count", items |-> <<>>]

\* the example plugin's call_resource; cnt is its counter
ExampleCallResource(r, cnt) ==
    IF r.uri = "/echo"
    THEN [response |-> Ok(ResponseNew(r.body)), stream |-> IterStream(<<>>), count |-> cnt]
    ELSE IF r.uri = "/count"
    THEN [response |-> Ok(ResponseNew(to_string(cnt))), stream |-> CountStream,
          count |-> cnt + 1]
    ELSE [response |-> Ok([status |-> 404, headers |-> EmptyHeaderMap, body |-> ""]),
          stream |-> IterStream(<<>>), count |-> cnt]

\* the header names and values a handler's response may carry
ResponseNames == {<<97>>}
ResponseValues == {<<49>>, <<195, 169>>}

SeqsUpTo(S, lo, hi) == UNION {[1..k -> S] : k \in lo..hi}

DistinctNames(h) == \A i, j \in 1..Len(h) : h[i].name = h[j].name => i = j

ResponseHeaderMaps ==
    {h \in SeqsUpTo([name : ResponseNames, values : SeqsUpTo(ResponseValues, 1, MaxVals)],
                    0, MaxKeys) : DistinctNames(h)}

Responses == [status : {200, 404}, headers : ResponseHeaderMaps, body : {"hi"}]

ChunkResults == {Ok("1"), Ok("2"), Err("chunk error")}

\* what an arbitrary implementation of ResourceService may return
GenericOutcomes(cnt) ==
    [response : {Ok(r) : r \in Responses} \cup {Err("handler error")},
     stream : {IterStream(c) : c \in SeqsUpTo(ChunkResults, 0, MaxChunks)},
     count : {cnt}]

HandlerOutcomes(r, cnt) == GenericOutcomes(cnt) \cup {ExampleCallResource(r, cnt)}

(***************************************************************************)
(* The outbound stream: once(ready(initial)).chain(stream.map(..)).        *)
(* Its state s holds the Once, the Chain's first flag, the handler's       *)
(* stream, the handler's counter and the items the handler has yielded.    *)
(***************************************************************************)
\* PollStream whose counter stream increments the counter twice per item
PollStreamDouble(s) ==
    IF s.stream.kind = "count"
    THEN LET body == Ok(to_string(s.count + 1))
         IN  [item |-> Some(body),
              s |-> [s EXCEPT !.count = @ + 2, !.yielded = Append(@, body)]]
    ELSE IF s.stream.items = <<>>
    THEN [item |-> None, s |-> s]
    ELSE [item |-> Some(Head(s.stream.items)),
          s |-> [s EXCEPT !.stream.items = Tail(@),
                          !.yielded = Append(@, Head(s.stream.items))]]

\* poll_next of the handler's stream
PollStream(s) ==
    IF s.stream.kind = "count"
    THEN LET body == Ok(to_string(s.count))
         IN  [item |-> Some(body),
              s |-> [s EXCEPT !.count = @ + 1, !.yielded = Append(@, body)]]
    ELSE IF s.stream.items = <<>>
    THEN [item |-> None, s |-> s]
    ELSE [item |-> Some(Head(s.stream.items)),
          s |-> [s EXCEPT !.stream.items = Tail(@),
                          !.yielded = Append(@, Head(s.stream.items))]]

\* PollMap that passes over a failed chunk and takes the next one
PollMapSkipErr(s) ==
    LET p == PollStream(s)
        q == IF p.item # None /\ ~p.item[1].ok THEN PollStream(p.s) ELSE p
    IN  [item |-> IF q.item = None THEN None ELSE Some(MapChunk(q.item[1])), s |-> q.s]

\* poll_next of Map: the closure applied to the item of the inner stream
PollMap(s) ==
    LET p == PollStream(s)
    IN  [item |-> IF p.item = None THEN None ELSE Some(MapChunk(p.item[1])), s |-> p.s]

\* ChainPollNext that polls the second stream ahead while it yields the
\* item of the first
ChainPollNextEager(s) ==
    IF s.first /\ s.once # None
    THEN [item |-> Some(s.once[1]), s |-> PollMap([s EXCEPT !.once = None]).s]
    ELSE PollMap([s EXCEPT !.first = FALSE])

\* ChainPollNext without the second stream: the stream ends after the item
\* of the first
ChainPollNextNoSecond(s) ==
    IF s.first /\ s.once # None
    THEN [item |-> Some(s.once[1]), s |-> [s EXCEPT !.once = None]]
    ELSE [item |-> None, s |-> [s EXCEPT !.first = FALSE]]

\* poll_next of Chain: the first stream until it ends, then the second
ChainPollNext(s) ==
    IF s.first /\ s.once # None
    THEN [item |-> Some(s.once[1]), s |-> [s EXCEPT !.once = None]]
    ELSE PollMap([s EXCEPT !.first = FALSE])

StreamState == [once |-> once, first |-> first, stream |-> stream,
                count |-> count, yielded |-> yielded]

(***************************************************************************)
(* The inbound messages.                                                   *)
(***************************************************************************)
WireNames == {<<97>>, <<65>>, <<98>>, <<32>>}
WireValues == {<<49>>, <<50>>, <<195, 169>>, <<10>>}
WireMethods == {"GET", ""}
WireUrls == {"/echo", "/count", "/other", ""}
WireContexts == {"none", "valid", "invalid"}
WireBodies == {"hi"}

WireEntries == [name : WireNames, values : SeqsUpTo(WireValues, 0, MaxVals)]

\* a wire header map, as the sequence in which iter() visits its entries
WireHeaderMaps(n) == {h \in SeqsUpTo(WireEntries, 0, n) : DistinctNames(h)}

WireMessages ==
    [headers : WireHeaderMaps(StreamKeys), method : WireMethods, url : WireUrls,
     plugin_context : WireContexts, body : WireBodies]

CodecMessages ==
    [headers : WireHeaderMaps(MaxKeys), method : {"GET"}, url : {"/echo"},
     plugin_context : {"none"}, body : {"hi"}]

(***************************************************************************)
(* The call.                                                               *)
(***************************************************************************)
Init ==
    /\ wire \in {Some(m) : m \in WireMessages}
    /\ pc = "Received"
    /\ ret = None
    /\ calls = 0
    /\ count = 0
    /\ initial_response = None
    /\ once = None
    /\ first = FALSE
    /\ stream = IterStream(<<>>)
    /\ yielded = <<>>
    /\ out = <<>>
    /\ polls = 0
    /\ decoded = None
    /\ encoded = None

\* CallResource that invokes the handler a second time when its initial
\* response is Err
CallResourceRetry ==
    /\ pc = "Received"
    /\ LET request == TryFromRequest(wire[1])
       IN  IF ~request.ok
           THEN /\ pc' = "Rejected"
                /\ ret' = Some(Err(into_tonic_status(request.err)))
                /\ UNCHANGED <<wire, calls, count, initial_response, once, first, stream>>
           ELSE \E h \in HandlerOutcomes(request.val, count) :
                /\ pc' = "Streaming"
                /\ wire' = None
                /\ calls' = IF h.response.ok THEN calls + 1 ELSE calls + 2
                /\ count' = h.count
                /\ initial_response' = Some(h.response)
                /\ once' = Some(ConvertInitial(h.response))
                /\ first' = TRUE
                /\ stream' = h.stream
                /\ ret' = Some(Ok("CallResourceStream"))
    /\ UNCHANGED <<yielded, out, polls, decoded, encoded>>

\* Resource::call_resource, lines 224-247.  A rejected message stays in wire
\* to name what was rejected; a converted one has moved into the handler.
CallResource ==
    /\ pc = "Received"
    /\ LET request == TryFromRequest(wire[1])
       IN  IF ~request.ok
           THEN /\ pc' = "Rejected"
                /\ ret' = Some(Err(into_tonic_status(request.err)))
                /\ UNCHANGED <<wire, calls, count, initial_response, once, first, stream>>
           ELSE \E h \in HandlerOutcomes(request.val, count) :
                /\ pc' = "Streaming"
                /\ wire' = None
                /\ calls' = calls + 1
                /\ count' = h.count
                /\ initial_response' = Some(h.response)
                /\ once' = Some(ConvertInitial(h.response))
                /\ first' = TRUE
                /\ stream' = h.stream
                /\ ret' = Some(Ok("CallResourceStream"))
    /\ UNCHANGED <<yielded, out, polls, decoded, encoded>>

\* the transport polls the outbound stream
PollNext ==
    /\ pc = "Streaming"
    /\ (first /\ once # None) \/ stream.kind = "iter" \/ count < MaxCount
    /\ LET r == ChainPollNext(StreamState)
       IN  /\ once' = r.s.once
           /\ first' = r.s.first
           /\ stream' = r.s.stream
           /\ count' = r.s.count
           /\ yielded' = r.s.yielded
           /\ out' = IF r.item = None THEN out ELSE Append(out, r.item[1])
           /\ pc' = IF r.item = None THEN "Closed" ELSE pc
    /\ polls' = polls + 1
    /\ UNCHANGED <<wire, ret, calls, initial_response, decoded, encoded>>

\* the transport drops the outbound stream, and the handler's stream with it
DropStream ==
    /\ pc = "Streaming"
    /\ pc' = "Dropped"
    /\ UNCHANGED <<wire, ret, calls, count, initial_response, once, first, stream,
                   yielded, out, polls, decoded, encoded>>

Next == CallResource \/ PollNext \/ DropStream

Spec == Init /\ [][Next]_vars

(***************************************************************************)
(* The call with a consumer that keeps polling: the outbound stream is     *)
(* never dropped and a poll that can be made is made.                      *)
(***************************************************************************)
\* the inbound messages without headers
PollingMessages ==
    [headers : {<<>>}, method : WireMethods, url : WireUrls,
     plugin_context : WireContexts, body : WireBodies]

InitPolling ==
    /\ wire \in {Some(m) : m \in PollingMessages}
    /\ pc = "Received"
    /\ ret = None
    /\ calls = 0
    /\ count = 0
    /\ initial_response = None
    /\ once = None
    /\ first = FALSE
    /\ stream = IterStream(<<>>)
    /\ yielded = <<>>
    /\ out = <<>>
    /\ polls = 0
    /\ decoded = None
    /\ encoded = None

NextPolling == CallResource \/ PollNext

SpecPolling ==
    InitPolling /\ [][NextPolling]_vars /\ WF_vars(CallResource) /\ WF_vars(PollNext)

(***************************************************************************)
(* The two converters on their own: the headers of an inbound message are  *)
(* decoded, and the decoded headers are encoded as those of a response.    *)
(***************************************************************************)
InitCodec ==
    /\ wire \in {Some(m) : m \in CodecMessages}
    /\ pc = "Codec"
    /\ ret = None
    /\ calls = 0
    /\ count = 0
    /\ initial_response = None
    /\ once = None
    /\ first = FALSE
    /\ stream = IterStream(<<>>)
    /\ yielded = <<>>
    /\ out = <<>>
    /\ polls = 0
    /\ decoded = None
    /\ encoded = None

CodecDecode ==
    /\ pc = "Codec"
    /\ decoded' = Some(TryFromRequest(wire[1]))
    /\ pc' = "Decoded"
    /\ UNCHANGED <<wire, ret, calls, count, initial_response, once, first, stream,
                   yielded, out, polls, encoded>>

CodecEncode ==
    /\ pc = "Decoded"
    /\ decoded[1].ok
    /\ encoded' = Some(TryFromResponse([status |-> 200,
                                        headers |-> decoded[1].val.headers,
                                        body |-> decoded[1].val.body]))
    /\ pc' = "Encoded"
    /\ UNCHANGED <<wire, ret, calls, count, initial_response, once, first, stream,
                   yielded, out, polls, decoded>>

NextCodec == CodecDecode \/ CodecEncode

SpecCodec == InitCodec /\ [][NextCodec]_vars

(***************************************************************************)
(* The request converter on its own, over the inbound messages of the      *)
(* call: every field of the message may be malformed.                      *)
(***************************************************************************)
InitRequest ==
    /\ wire \in {Some(m) : m \in WireMessages}
    /\ pc = "Codec"
    /\ ret = None
    /\ calls = 0
    /\ count = 0
    /\ initial_response = None
    /\ once = None
    /\ first = FALSE
    /\ stream = IterStream(<<>>)
    /\ yielded = <<>>
    /\ out = <<>>
    /\ polls = 0
    /\ decoded = None
    /\ encoded = None

SpecRequest == InitRequest /\ [][NextCodec]_vars

(***************************************************************************)
(* The header grammar stated on its own, and what an outbound item is the  *)
(* image of.                                                               *)
(***************************************************************************)
TokenBytes == (65..90) \cup (97..122) \cup (48..57) \cup TokenPunct

MalformedName(k) == k = <<>> \/ \E i \in 1..Len(k) : k[i] \notin TokenBytes
MalformedValue(v) == \E i \in 1..Len(v) : (v[i] < 32 /\ v[i] # 9) \/ v[i] = 127

MalformedHeaders(h) ==
    \E i \in 1..Len(h) :
        MalformedName(h[i].name) \/ \E j \in 1..Len(h[i].values) : MalformedValue(h[i].values[j])

Malformed(m) ==
    \/ MalformedHeaders(m.headers)
    \/ m.plugin_context = "invalid"
    \/ m.method = ""
    \/ m.url = ""

Started == pc \in {"Streaming", "Closed", "Dropped"}

\* o is the outbound item made of the handler's chunk c
ImageOfChunk(c, o) ==
    IF c.ok THEN o.ok /\ o.val.body = c.val
    ELSE ~o.ok /\ o.err = [code |-> "Internal", message |-> c.err]

\* o is the outbound item made of the handler's initial response r
ImageOfInitial(r, o) ==
    IF ~r.ok THEN ~o.ok /\ o.err = [code |-> "Internal", message |-> r.err]
    ELSE IF o.ok THEN o.val.code = r.val.status /\ o.val.body = r.val.body
    ELSE o.err = [code |-> "Internal", message |-> "InvalidResponse"]

\* the values a header map holds under a name, in order
ValuesOf(h, n) ==
    LET i == CHOOSE j \in 1..Len(h) : h[j].name = n IN h[i].values

NamesOf(h) == {h[i].name : i \in 1..Len(h)}

(***************************************************************************)
(* C1: when the handler's initial response is Err, the outbound stream has *)
(* one element only, a failure status, and no chunk is ever pulled from    *)
(* the handler's stream, however long the consumer polls.                  *)
(***************************************************************************)
C1_InitialErrSingleElement ==
    (Started /\ ~initial_response[1].ok) =>
        /\ Len(out) <= 1
        /\ yielded = <<>>
        /\ \A i \in 1..Len(out) : ~out[i].ok

(***************************************************************************)
(* C2: when chunk k is the first Err of the handler's stream, the outbound *)
(* stream has at most k+1 elements and no chunk after k is pulled.         *)
(***************************************************************************)
C2_FailFast ==
    \A k \in 1..Len(yielded) :
        ~yielded[k].ok => Len(yielded) <= k /\ Len(out) <= k + 1

(***************************************************************************)
(* C3: an inbound message whose conversion fails (malformed header name or *)
(* value, failing plugin context, invalid method or URL) is answered with  *)
(* one failure status: the handler is not invoked and no stream is made;   *)
(* an invalid header name rejects the message even without values.         *)
(***************************************************************************)
C3_DecodeFailureRejects ==
    [][(pc = "Received" /\ Malformed(wire[1])) =>
          /\ pc' = "Rejected"
          /\ ret' # None /\ ~ret'[1].ok
          /\ calls' = 0
          /\ initial_response' = None /\ once' = None /\ ~first'
          /\ out' = <<>> /\ yielded' = <<>>]_vars

C3_Witness ==
    /\ pc = "Rejected"
    /\ \E i \in 1..Len(wire[1].headers) :
          MalformedName(wire[1].headers[i].name) /\ wire[1].headers[i].values = <<>>
    /\ ret # None /\ ~ret[1].ok
    /\ calls = 0

(***************************************************************************)
(* C4: element 0 of the outbound stream is the image of the initial        *)
(* response and element i the image of the i-th chunk pulled from the      *)
(* handler's stream; the stream has 1 + (chunks pulled) elements, and all  *)
(* the chunks are pulled when it ends.                                     *)
(***************************************************************************)
C4_OrderAndLength ==
    Started =>
        /\ out = <<>> => yielded = <<>>
        /\ out # <<>> =>
              /\ Len(out) = 1 + Len(yielded)
              /\ ImageOfInitial(initial_response[1], out[1])
              /\ \A i \in 1..Len(yielded) : ImageOfChunk(yielded[i], out[i + 1])
        /\ pc = "Closed" => out # <<>> /\ stream.items = <<>>

C4_Witness ==
    /\ pc = "Closed"
    /\ Len(out) = 3
    /\ yielded = <<Ok("1"), Ok("2")>>
    /\ out[2].ok /\ out[2].val.body = "1"
    /\ out[3].ok /\ out[3].val.body = "2"

(***************************************************************************)
(* C5: decoding a wire header map of valid names and values, some names    *)
(* with two or more values, and encoding the decoded headers with the      *)
(* response converter succeeds and gives back the same names with the same *)
(* values.                                                                 *)
(***************************************************************************)
StrictName(k) == k # <<>> /\ \A i \in 1..Len(k) : k[i] \in TokenBytes \ (65..90)
StrictValue(v) == \A i \in 1..Len(v) : v[i] >= 32 /\ v[i] < 127

StrictHeaders(h) ==
    \A i \in 1..Len(h) :
        /\ StrictName(h[i].name)
        /\ h[i].values # <<>>
        /\ \A j \in 1..Len(h[i].values) : StrictValue(h[i].values[j])

C5_HeaderRoundTrip ==
    (pc = "Encoded" /\ StrictHeaders(wire[1].headers)) =>
        /\ encoded[1].ok
        /\ DOMAIN encoded[1].val.headers = NamesOf(wire[1].headers)
        /\ \A n \in NamesOf(wire[1].headers) :
              encoded[1].val.headers[n] = ValuesOf(wire[1].headers, n)

(***************************************************************************)
(* C6: the handler's stream is pulled only by a poll of the outbound       *)
(* stream that comes after the poll that took the initial response: the    *)
(* chunks pulled are at most the polls less one.                           *)
(***************************************************************************)
C6_Backpressure ==
    /\ Len(yielded) <= Max(polls - 1, 0)
    /\ stream.kind = "count" => count <= Max(polls, 1)

C6_Witness ==
    /\ stream.kind = "count"
    /\ polls = 3
    /\ Len(yielded) = 2

(***************************************************************************)
(* C7: once the outbound stream is dropped, nothing more is pulled from    *)
(* the handler's stream: the chunks pulled are those of the elements the   *)
(* consumer received; dropped after two elements, the /count stream has    *)
(* given 200/"0" and 200/"1" and its counter stands at 2.                  *)
(***************************************************************************)
C7_Cancellation ==
    pc = "Dropped" =>
        /\ Len(yielded) = Max(Len(out) - 1, 0)
        /\ (stream.kind = "count" /\ Len(out) = 2) =>
              /\ out = <<Ok([code |-> 200, headers |-> EmptyWireHeaders, body |-> "0"]),
                         Ok([code |-> 200, headers |-> EmptyWireHeaders, body |-> "1"])>>
              /\ count = 2

C7_Witness ==
    /\ pc = "Dropped"
    /\ stream.kind = "count"
    /\ Len(out) = 2
    /\ count = 2

(***************************************************************************)
(* C8: every outbound message after the first has code 200, no headers and *)
(* the body of the chunk it was made of; the first one alone carries the   *)
(* handler's status and headers.                                           *)
(***************************************************************************)
C8_ChunkMessages ==
    \A i \in 2..Len(out) :
        out[i].ok =>
            /\ out[i].val.code = 200
            /\ out[i].val.headers = EmptyWireHeaders
            /\ yielded[i - 1].ok
            /\ out[i].val.body = yielded[i - 1].val

C8_Witness ==
    /\ Len(out) = 3
    /\ out[1].ok /\ out[1].val.code = 404 /\ DOMAIN out[1].val.headers # {}
    /\ out[2].ok /\ out[2].val.body = "1"
    /\ out[3].ok /\ out[3].val.body = "2"

C10_InvalidResponseTerminal ==
    (Started /\ initial_response[1].ok /\ out # <<>> /\ ~out[1].ok) =>
        /\ Len(out) = 1
        /\ yielded = <<>>

(***************************************************************************)
(* C11: a response whose header values are all text is converted with      *)
(* success, into one wire entry per header name that holds every value of  *)
(* the name in insertion order, however many values the name has.          *)
(***************************************************************************)
TextHeaders(h) ==
    \A i \in 1..Len(h) : \A j \in 1..Len(h[i].values) : StrictValue(h[i].values[j])

C11_ResponseHeaderGrouping ==
    (Started /\ initial_response[1].ok /\ TextHeaders(initial_response[1].val.headers)) =>
        LET r == initial_response[1].val
            o == IF out # <<>> THEN out[1] ELSE once[1]
        IN  /\ o.ok
            /\ DOMAIN o.val.headers = NamesOf(r.headers)
            /\ \A n \in NamesOf(r.headers) : o.val.headers[n] = ValuesOf(r.headers, n)

(***************************************************************************)
(* C12: the request conversion stops at its first failing stage and        *)
(* returns that stage's error alone.  As claimed, the stages are the       *)
(* headers, then the method and URL, then the plugin context.              *)
(***************************************************************************)
Converted == pc \in {"Decoded", "Encoded"}

HeaderError(r) ==
    /\ ~r.ok
    /\ r.err.kind = "InvalidRequest"
    /\ r.err.source \in {"InvalidHeaderName", "InvalidHeaderValue"}

HttpError(r) == ~r.ok /\ r.err = [kind |-> "InvalidRequest", source |-> "http::Error"]

ContextError(r) == ~r.ok /\ r.err.kind = "PluginContext"

BadMethodOrUrl(m) == m.method = "" \/ m.url = ""

C12_ClaimedOrder ==
    Converted =>
        LET m == wire[1]
            r == decoded[1]
        IN  /\ MalformedHeaders(m.headers) => HeaderError(r)
            /\ (~MalformedHeaders(m.headers) /\ BadMethodOrUrl(m)) => HttpError(r)
            /\ (~MalformedHeaders(m.headers) /\ ~BadMethodOrUrl(m)
                    /\ m.plugin_context = "invalid") => ContextError(r)
            /\ ~Malformed(m) => r.ok

(***************************************************************************)
(* C12 as amended: the stages are the headers, then the plugin context,    *)
(* then the method and URL; a message with valid headers, a failing plugin *)
(* context and an invalid method or URL yields the plugin context's error. *)
(***************************************************************************)
C12_ShortCircuitOrder ==
    Converted =>
        LET m == wire[1]
            r == decoded[1]
        IN  /\ MalformedHeaders(m.headers) => HeaderError(r)
            /\ (~MalformedHeaders(m.headers) /\ m.plugin_context = "invalid") =>
                  ContextError(r)
            /\ (~MalformedHeaders(m.headers) /\ m.plugin_context # "invalid"
                    /\ BadMethodOrUrl(m)) => HttpError(r)
            /\ ~Malformed(m) => r.ok

C12_Witness ==
    /\ Converted
    /\ ~MalformedHeaders(wire[1].headers)
    /\ wire[1].plugin_context = "invalid"
    /\ wire[1].method = "" /\ wire[1].url = ""
    /\ ContextError(decoded[1])

(***************************************************************************)
(* C13: the handler is invoked at most once per call: once when the        *)
(* request converts, never for a rejected message and never again after a  *)
(* failure; its initial response is there before the stream is returned    *)
(* and is emitted before the first chunk is pulled.                        *)
(***************************************************************************)
C13_HandlerOnce ==
    /\ calls <= 1
    /\ pc \in {"Received", "Rejected"} =>
          calls = 0 /\ initial_response = None /\ yielded = <<>>
    /\ Started => calls = 1 /\ initial_response # None
    /\ (ret # None /\ ret[1].ok) => calls = 1 /\ initial_response # None
    /\ yielded # <<>> => out # <<>> /\ once = None

C13_Witness ==
    /\ pc = "Closed"
    /\ calls = 1
    /\ ~initial_response[1].ok
    /\ Len(yielded) = 2
    /\ ~yielded[1].ok

(***************************************************************************)
(* C14: with a finite chunk stream of n items, all Ok, and a consumer that *)
(* keeps polling, the outbound stream ends: it has yielded n+1 elements    *)
(* when it signals its end, and it signals its end only when the chunk     *)
(* stream is exhausted.                                                    *)
(***************************************************************************)
AllOk(items) == \A i \in 1..Len(items) : items[i].ok

C14_Termination ==
    /\ (pc = "Streaming" /\ stream.kind = "iter" /\ AllOk(yielded \o stream.items))
          ~> (pc = "Closed")
    /\ [](pc = "Closed" => stream.items = <<>> /\ Len(out) = Len(yielded) + 1)
    /\ [][(pc = "Streaming" /\ stream.kind = "iter") =>
             yielded' \o stream'.items = yielded \o stream.items]_vars

C14_Witness ==
    /\ pc = "Closed"
    /\ yielded = <<Ok("2"), Ok("1")>>
    /\ stream.items = <<>>
    /\ Len(out) = 3
    /\ polls = 4

(***************************************************************************)
(* C15: the decoded header names are the wire keys in lower case: wire     *)
(* entries whose keys differ in case only are stored under one name, whose *)
(* values are those of all these entries, none lost; the decoded names can *)
(* be fewer than the wire keys and differ from their spelling.             *)
(***************************************************************************)
Lower(k) == [i \in 1..Len(k) |-> IF k[i] >= 65 /\ k[i] <= 90 THEN k[i] + 32 ELSE k[i]]

\* the values of the wire entries whose key is n in lower case, in the order
\* of the entries
RECURSIVE WireValuesOf(_, _)
WireValuesOf(w, n) ==
    IF w = <<>> THEN <<>>
    ELSE (IF Lower(Head(w).name) = n THEN Head(w).values ELSE <<>>)
             \o WireValuesOf(Tail(w), n)

C15_CaseInsensitiveNames ==
    (Converted /\ decoded[1].ok) =>
        LET w == wire[1].headers
            h == decoded[1].val.headers
        IN  /\ DistinctNames(h)
            /\ NamesOf(h) = {Lower(w[i].name) : i \in {j \in 1..Len(w) : w[j].values # <<>>}}
            /\ \A i \in 1..Len(h) : h[i].values = WireValuesOf(w, h[i].name)
            /\ Len(h) <= Len(w)

C15_Witness ==
    /\ Converted /\ decoded[1].ok
    /\ Len(wire[1].headers) = 2
    /\ wire[1].headers[1].name = <<65>>
    /\ wire[1].headers[2].name = <<97>>
    /\ Len(decoded[1].val.headers) = 1
    /\ decoded[1].val.headers[1].name = <<97>>
    /\ decoded[1].val.headers[1].values = <<<<49>>, <<50>>, <<50>>, <<49>>>>

====
